---------------------------- MODULE Spec2Model ----------------------------
(***************************************************************************)
(* Model of the payout polling coordinator (class PollingService, the      *)
(* second half of frontend/src/hooks/usePolling.ts) as a state machine.    *)
(*                                                                         *)
(* The browser is single threaded: every public method, every timer        *)
(* callback and every continuation of an awaited promise runs to           *)
(* completion.  One action of the model is one such run.  Between two runs *)
(* the environment may call a public method, let time pass, fire a timer   *)
(* that is due, or settle the retried fetch of a poll that is in flight.   *)
(***************************************************************************)
EXTENDS Integers, Sequences, FiniteSets, TLC

(***************************************************************************)
(* Program constants (usePolling.ts:103-112).                              *)
(***************************************************************************)
POLL_INTERVAL == 3000
MAX_POLL_COUNT == 1000
ERROR_RETRY_DELAY == 10000
DefaultPage == 1
DefaultPerPage == 10

(***************************************************************************)
(* Bounds of the model.                                                    *)
(***************************************************************************)
MaxCalls == 4         \* Spec: calls of public methods in one behaviour
MaxClock == 6000      \* Spec: the clock stops advancing here (ms)
MaxLifecycleCalls == 3  \* SpecErrorRetry, SpecCeiling: calls of public methods
MaxId == 2            \* SpecDiff: payout ids are 1..MaxId
MaxServiceCalls == 2  \* SpecService: service calls begun by the page
MaxRequests == 5      \* SpecService: requests sent in all
MaxDepth == 4         \* SpecService: service calls nested in one another
MaxTick == 2          \* SpecService: pollCount of the tick is in 1..MaxTick
MaxRetries == 3       \* SpecRetry: maxRetries of the policy is in 0..MaxRetries
TicksKept == 4        \* the ticks whose correlation ids are remembered
NearCeiling == 3      \* SpecCeiling: the environment acts freely this close to the ceiling
ExtraTime == 3000     \* SpecCeiling: the clock runs on this long after the earliest ceiling tick (ms)

(***************************************************************************)
(* Values.                                                                 *)
(***************************************************************************)
NoError == "null"                 \* error: string | null
NullDate == << >>                 \* lastUpdate: Date | null, a date is <<ms>>
DateOf(t) == << t >>
\* pollInterval: number | null.  `set` is its truthiness, `pos` the place in
\* `timers` of the pending timeout it names, 0 once that timeout has fired.
NullTimer == [set |-> FALSE, pos |-> 0]

\* The lists the page hands over and the list endpoint returns while the
\* coordinator runs: a pending payout, the payout processed, and the processed
\* payout with a second one behind it.
Payout(id, status) == [id |-> id, status |-> status]
PolledSnapshots ==
    { << Payout(1, "pending") >>,
      << Payout(1, "succeeded") >>,
      << Payout(1, "succeeded"), Payout(2, "pending") >> }

\* The page contexts the page sets: (page, perPage).
PageContexts == { << DefaultPage, DefaultPerPage >>, << DefaultPage + 1, 2 * DefaultPerPage >> }

Callbacks == {"cbA", "cbB"}

\* the subscriber callbacks that throw when they are called
ThrowingCallbacks == {"cbB"}

\* result.error of a failed retry: an Error object, a bare string, or neither.
FetchErrors ==
    { [type |-> "Error", message |-> "Server is currently unavailable. Please try again later."],
      [type |-> "other", message |-> ""] }

VARIABLES
    pollInterval,           \* the timeout last armed, or null
    isPolling,
    pollCount,
    lastUpdate,
    error,
    currentPayouts,
    currentPage,
    perPage,
    payoutUpdateCallbacks,  \* a JS Set: insertion ordered, no duplicates
    statusCallbacks,
    timers,                 \* the browser's pending timeouts, in arming order
    inFlight,               \* performPoll calls suspended at `await retry(...)`
    now,                    \* the clock, ms
    ev,                     \* history: the run that produced this state
    calls,                  \* history: the subscriber calls made by that run
    made,                   \* history: public methods called so far
    handles,                \* history: the unsubscribe closures handed out
    session,                \* history: what happened since the last start from Idle
    ticks,                  \* history: the correlation ids the latest ticks gave to retry
    detect,                 \* a call of detectChanges on its own: arguments and result
    retry,                  \* a call of retryService.retry on its own
    classify,               \* a call of isRetryableError on its own
    wire,                   \* service calls: their frames and the requests they sent
    round                   \* one forEach over a Set of callbacks on its own

svc == << pollInterval, isPolling, pollCount, lastUpdate, error,
          currentPayouts, currentPage, perPage >>
subs == << payoutUpdateCallbacks, statusCallbacks >>
vars == << pollInterval, isPolling, pollCount, lastUpdate, error,
           currentPayouts, currentPage, perPage,
           payoutUpdateCallbacks, statusCallbacks,
           timers, inFlight, now, ev, calls, made, handles, session, ticks,
           detect, retry, classify, wire, round >>

\* the variables of the coordinator, and those of the two functions called on
\* their own
coordinator == << pollInterval, isPolling, pollCount, lastUpdate, error,
                  currentPayouts, currentPage, perPage,
                  payoutUpdateCallbacks, statusCallbacks,
                  timers, inFlight, now, ev, calls, made, handles, session, ticks >>
functions == << detect, retry, classify, wire, round >>

(***************************************************************************)
(* Timers.  window.setTimeout returns a fresh id, and both setTimeout      *)
(* calls of the class assign it to pollInterval at once.  The model names  *)
(* a pending timeout by its place in `timers`; removing one (it fired, or  *)
(* clearTimeout) moves the later ones down, and pollInterval with them.    *)
(***************************************************************************)
Min(S) == CHOOSE x \in S : \A y \in S : x <= y
RemoveAt(s, i) == SubSeq(s, 1, i - 1) \o SubSeq(s, i + 1, Len(s))

SetTimeout(ts, kind, delay) ==
    [timers |-> Append(ts, [kind |-> kind, at |-> now + delay]),
     pollInterval |-> [set |-> TRUE, pos |-> Len(ts) + 1]]

Removed(pi, k) ==
    IF pi.pos = k THEN [pi EXCEPT !.pos = 0]
    ELSE IF pi.pos > k THEN [pi EXCEPT !.pos = @ - 1]
    ELSE pi

\* the timeout at place k fires: it is pending no more
Fired(ts, pi, k) == [timers |-> RemoveAt(ts, k), pollInterval |-> Removed(pi, k)]

\* window.clearTimeout(pi): nothing happens when that timeout has fired
ClearTimeout(ts, pi) == IF pi.pos > 0 THEN RemoveAt(ts, pi.pos) ELSE ts

(***************************************************************************)
(* getStatus and the two notification rounds.  A round is the sequence of  *)
(* calls it makes, in the Set's iteration order; a callback that throws is *)
(* caught and the round goes on.                                           *)
(***************************************************************************)
GetStatus(active, updated, err, count) ==
    [isPolling |-> active, lastUpdate |-> updated, error |-> err, pollCount |-> count]

\* mutant: the callbacks are called without try/catch
CatchesNothing == FALSE

\* try { callback(...) } catch (error) { console.error(...) }
CatchesCallbackError == TRUE

\* Set.prototype.forEach over the subscribers: the calls made, in order
RECURSIVE ForEach(_, _, _)
ForEach(callbacks, kind, arg) ==
    IF callbacks = << >> THEN << >>
    ELSE LET cb == Head(callbacks)
             call == [kind |-> kind, cb |-> cb, arg |-> arg,
                      threw |-> cb \in ThrowingCallbacks]
         IN  IF call.threw /\ ~CatchesCallbackError
             THEN << call >>
             ELSE << call >> \o ForEach(Tail(callbacks), kind, arg)

NotifyStatusChange(status) == ForEach(statusCallbacks, "status", status)

NotifyPayoutUpdates(payouts) == ForEach(payoutUpdateCallbacks, "payout", payouts)


(***************************************************************************)
(* detectChanges.  new Map(array) keeps one entry per id, at the place of  *)
(* the id's first occurrence and with the value of its last one.           *)
(***************************************************************************)
RECURSIVE MapKeys(_)
MapKeys(s) ==
    IF s = << >> THEN << >>
    ELSE LET front == MapKeys(SubSeq(s, 1, Len(s) - 1))
             id == s[Len(s)].id
         IN  IF \E i \in DOMAIN front : front[i] = id THEN front ELSE Append(front, id)

MapHas(s, id) == \E i \in DOMAIN s : s[i].id = id

MapGet(s, id) ==
    LET last == CHOOSE i \in DOMAIN s :
                    s[i].id = id /\ \A j \in DOMAIN s : s[j].id = id => j <= i
    IN  s[last]

MapEntries(s) == [k \in 1..Len(MapKeys(s)) |-> MapGet(s, MapKeys(s)[k])]

\* mutant: an item counts as changed when any of its fields differs
AnyFieldChanged(oldPayouts, p) ==
    MapHas(oldPayouts, p.id) /\ MapGet(oldPayouts, p.id) # p

StatusChanged(oldPayouts, p) ==
    MapHas(oldPayouts, p.id) /\ MapGet(oldPayouts, p.id).status # p.status

FirstSeen(oldPayouts, p) == ~MapHas(oldPayouts, p.id)

DetectChanges(oldPayouts, newPayouts) ==
    SelectSeq(MapEntries(newPayouts), LAMBDA p : StatusChanged(oldPayouts, p))
        \o SelectSeq(MapEntries(newPayouts), LAMBDA p : FirstSeen(oldPayouts, p))

(***************************************************************************)
(* History values.                                                         *)
(***************************************************************************)
\* The unsubscribe closures handed out, by subscriber set and callback: `live`
\* counts those not called yet, `used` tells that one of them has been called.
Kinds == {"payout", "status"}
NoHandles == [h \in Kinds \X Callbacks |-> [live |-> 0, used |-> FALSE]]
HandedOut(hs, kind, cb) == [hs EXCEPT ![<< kind, cb >>].live = @ + 1]
Called(hs, kind, cb) == [hs EXCEPT ![<< kind, cb >>] = [live |-> @.live - 1, used |-> TRUE]]
Cleared(hs, kind) ==
    [h \in Kinds \X Callbacks |->
        IF h[1] = kind THEN [live |-> 0, used |-> hs[h].used \/ hs[h].live > 0] ELSE hs[h]]

\* a poll in flight: `held` is the list held when its tick began
NoPoll == [pollNo |-> 0, stopped |-> FALSE, held |-> << >>]
NoFailure == [type |-> "none", message |-> ""]
Ev(op) ==
    [op |-> op, active |-> isPolling, arg |-> << >>, poll |-> NoPoll, changed |-> FALSE,
     changes |-> << >>, updated |-> FALSE, err |-> NoFailure, cb |-> ""]
\* `updated` tells of each poll in flight whether updateCurrentPayouts was called
\* since its tick began
NewSession ==
    [startedAt |-> now, fetched |-> FALSE, stoppedEarly |-> FALSE,
     settled |-> "none", settledAt |-> 0, ceiling |-> FALSE,
     updated |-> session.updated]

NoDetectCall == [called |-> FALSE]
NoRetryCall == [pc |-> "none"]

\* the coordinator after construction
Constructed ==
    /\ pollInterval = NullTimer
    /\ isPolling = FALSE
    /\ pollCount = 0
    /\ lastUpdate = NullDate
    /\ error = NoError
    /\ currentPayouts = << >>
    /\ currentPage = DefaultPage
    /\ perPage = DefaultPerPage
    /\ payoutUpdateCallbacks = << >>
    /\ statusCallbacks = << >>
    /\ timers = << >>
    /\ inFlight = << >>
    /\ now = 0
    /\ ev = [op |-> "init", active |-> FALSE, arg |-> << >>, poll |-> NoPoll,
             changed |-> FALSE, err |-> NoFailure, cb |-> ""]
    /\ calls = << >>
    /\ made = 0
    /\ handles = NoHandles
    /\ ticks = << >>
    /\ session = [startedAt |-> 0, fetched |-> FALSE, stoppedEarly |-> FALSE,
                  settled |-> "none", settledAt |-> 0, ceiling |-> FALSE,
                  updated |-> << >>]

NoClassifyCall == [called |-> FALSE]
\* no service call is running, no request was sent, no correlation id minted
NoServiceCall ==
    [stack |-> << >>, minted |-> 0, keys |-> 0, submitted |-> 0, started |-> 0,
     sent |-> << >>]
NoRound == [active |-> FALSE]

Init ==
    /\ Constructed
    /\ detect = NoDetectCall
    /\ retry = NoRetryCall
    /\ classify = NoClassifyCall
    /\ wire = NoServiceCall
    /\ round = NoRound

\* a public method is called
PublicCall == made' = made + 1

\* mutant: the list handed over is dropped
CopyOfNothing(payouts) == << >>

\* payouts ? [...payouts] : []
CopyOf(payouts) == payouts

(***************************************************************************)
(* scheduleNextPoll: arms the steady-state timeout unless Idle.            *)
(***************************************************************************)
ScheduleDelay == POLL_INTERVAL

ScheduleNextPoll(active, ts, pi) ==
    IF ~active THEN [timers |-> ts, pollInterval |-> pi]
    ELSE SetTimeout(ts, "poll", ScheduleDelay)

(***************************************************************************)
(* startPolling(currentPayouts).                                           *)
(***************************************************************************)
\* mutant: startPolling without its early return
StartNeverNoop == FALSE

StartIsNoop == isPolling

StartPolling(payouts) ==
    /\ PublicCall
    /\ UNCHANGED << functions, ticks >>
    /\ ev' = [Ev("startPolling") EXCEPT !.arg = payouts]
    /\ IF StartIsNoop
       THEN /\ calls' = << >>
            /\ UNCHANGED << svc, subs, timers, inFlight, now, handles, session >>
       ELSE LET next == ScheduleNextPoll(TRUE, timers, pollInterval)
            IN  /\ currentPayouts' = CopyOf(payouts)
                /\ isPolling' = TRUE
                /\ pollCount' = 0
                /\ error' = NoError
                /\ calls' = NotifyStatusChange(GetStatus(TRUE, lastUpdate, NoError, 0))
                /\ timers' = next.timers
                /\ pollInterval' = next.pollInterval
                /\ session' = NewSession
                /\ UNCHANGED << lastUpdate, currentPage, perPage, subs, inFlight, now,
                                handles >>

(***************************************************************************)
(* stopPolling().  The timeout it clears is the one pollInterval names.    *)
(***************************************************************************)
StopTimers(ts, pi) == IF pi.set THEN ClearTimeout(ts, pi) ELSE ts

MarkStopped(polls) == [i \in DOMAIN polls |-> [polls[i] EXCEPT !.stopped = TRUE]]

StopPolling ==
    /\ PublicCall
    /\ UNCHANGED << functions, ticks >>
    /\ ev' = Ev("stopPolling")
    /\ timers' = StopTimers(timers, pollInterval)
    /\ pollInterval' = NullTimer
    /\ isPolling' = FALSE
    /\ calls' = NotifyStatusChange(GetStatus(FALSE, lastUpdate, error, pollCount))
    /\ inFlight' = MarkStopped(inFlight)
    /\ session' = [session EXCEPT
                      !.stoppedEarly = @ \/ (isPolling /\ ~session.fetched)]
    /\ UNCHANGED << pollCount, lastUpdate, error, currentPayouts, currentPage,
                    perPage, subs, now, handles >>

(***************************************************************************)
(* destroy(): stopPolling(), then both subscriber sets are cleared.        *)
(***************************************************************************)
Destroy ==
    /\ PublicCall
    /\ UNCHANGED << functions, ticks >>
    /\ ev' = Ev("destroy")
    /\ timers' = StopTimers(timers, pollInterval)
    /\ pollInterval' = NullTimer
    /\ isPolling' = FALSE
    /\ calls' = NotifyStatusChange(GetStatus(FALSE, lastUpdate, error, pollCount))
    /\ inFlight' = MarkStopped(inFlight)
    /\ payoutUpdateCallbacks' = << >>
    /\ statusCallbacks' = << >>
    /\ handles' = Cleared(Cleared(handles, "payout"), "status")
    /\ session' = [session EXCEPT
                      !.stoppedEarly = @ \/ (isPolling /\ ~session.fetched)]
    /\ UNCHANGED << pollCount, lastUpdate, error, currentPayouts, currentPage,
                    perPage, now >>

(***************************************************************************)
(* updateCurrentPayouts, updateCurrentPage.                                *)
(***************************************************************************)
UpdateCurrentPayouts(payouts) ==
    /\ PublicCall
    /\ UNCHANGED << functions, ticks >>
    /\ ev' = [Ev("updateCurrentPayouts") EXCEPT !.arg = payouts]
    /\ currentPayouts' = CopyOf(payouts)
    /\ session' = [session EXCEPT !.updated = [k \in DOMAIN @ |-> TRUE]]
    /\ calls' = << >>
    /\ UNCHANGED << pollInterval, isPolling, pollCount, lastUpdate, error,
                    currentPage, perPage, subs, timers, inFlight, now, handles >>

UpdateCurrentPage(page, size) ==
    /\ PublicCall
    /\ UNCHANGED << functions, ticks >>
    /\ ev' = [Ev("updateCurrentPage") EXCEPT !.arg = << page, size >>]
    /\ currentPage' = page
    /\ perPage' = size
    /\ calls' = << >>
    /\ UNCHANGED << pollInterval, isPolling, pollCount, lastUpdate, error,
                    currentPayouts, subs, timers, inFlight, now, handles, session >>

(***************************************************************************)
(* onPayoutUpdate, onStatusChange and the unsubscribe closures they        *)
(* return.  Set.add of a present callback and Set.delete of an absent one  *)
(* change nothing.                                                         *)
(***************************************************************************)
SetAdd(s, cb) == IF \E i \in DOMAIN s : s[i] = cb THEN s ELSE Append(s, cb)
SetDelete(s, cb) == SelectSeq(s, LAMBDA x : x # cb)
SetHas(s, cb) == \E i \in DOMAIN s : s[i] = cb

OnPayoutUpdate(cb) ==
    /\ PublicCall
    /\ UNCHANGED << functions, ticks >>
    /\ ev' = [Ev("onPayoutUpdate") EXCEPT !.cb = cb]
    /\ payoutUpdateCallbacks' = SetAdd(payoutUpdateCallbacks, cb)
    /\ handles' = HandedOut(handles, "payout", cb)
    /\ calls' = << >>
    /\ UNCHANGED << svc, statusCallbacks, timers, inFlight, now, session >>

\* the closure returned by onPayoutUpdate(cb) is called for the first time
UnsubscribePayoutUpdate(cb) ==
    /\ PublicCall
    /\ handles[<< "payout", cb >>].live > 0
    /\ UNCHANGED << functions, ticks >>
    /\ ev' = [Ev("unsubscribePayoutUpdate") EXCEPT !.cb = cb]
    /\ payoutUpdateCallbacks' = SetDelete(payoutUpdateCallbacks, cb)
    /\ handles' = Called(handles, "payout", cb)
    /\ calls' = << >>
    /\ UNCHANGED << svc, statusCallbacks, timers, inFlight, now, session >>

\* a closure returned by onPayoutUpdate(cb) is called once more
UnsubscribePayoutUpdateAgain(cb) ==
    /\ PublicCall
    /\ handles[<< "payout", cb >>].used
    /\ UNCHANGED << functions, ticks >>
    /\ ev' = [Ev("unsubscribePayoutUpdateAgain") EXCEPT !.cb = cb]
    /\ payoutUpdateCallbacks' = SetDelete(payoutUpdateCallbacks, cb)
    /\ calls' = << >>
    /\ UNCHANGED << svc, statusCallbacks, timers, inFlight, now, handles, session >>

OnStatusChange(cb) ==
    /\ PublicCall
    /\ UNCHANGED << functions, ticks >>
    /\ ev' = [Ev("onStatusChange") EXCEPT !.cb = cb]
    /\ statusCallbacks' = SetAdd(statusCallbacks, cb)
    /\ handles' = HandedOut(handles, "status", cb)
    /\ calls' = << >>
    /\ UNCHANGED << svc, payoutUpdateCallbacks, timers, inFlight, now, session >>

\* the closure returned by onStatusChange(cb) is called for the first time
UnsubscribeStatusChange(cb) ==
    /\ PublicCall
    /\ handles[<< "status", cb >>].live > 0
    /\ UNCHANGED << functions, ticks >>
    /\ ev' = [Ev("unsubscribeStatusChange") EXCEPT !.cb = cb]
    /\ statusCallbacks' = SetDelete(statusCallbacks, cb)
    /\ handles' = Called(handles, "status", cb)
    /\ calls' = << >>
    /\ UNCHANGED << svc, payoutUpdateCallbacks, timers, inFlight, now, session >>

\* a closure returned by onStatusChange(cb) is called once more
UnsubscribeStatusChangeAgain(cb) ==
    /\ PublicCall
    /\ handles[<< "status", cb >>].used
    /\ UNCHANGED << functions, ticks >>
    /\ ev' = [Ev("unsubscribeStatusChangeAgain") EXCEPT !.cb = cb]
    /\ statusCallbacks' = SetDelete(statusCallbacks, cb)
    /\ calls' = << >>
    /\ UNCHANGED << svc, payoutUpdateCallbacks, timers, inFlight, now, handles, session >>

(***************************************************************************)
(* The timeout callback of scheduleNextPoll (lines 201-205) up to the      *)
(* `await` inside performPoll, or to its end when no fetch is issued.      *)
(***************************************************************************)
Due(k) == k \in DOMAIN timers /\ timers[k].at <= now

\* mutant: the callback does not look at the active flag
TimerCallbackRunsAlways == TRUE

TimerCallbackRuns == isPolling

\* mutant: the tick counts itself twice
NextPollCountTwice(count) == count + 2

\* this.pollCount++
NextPollCount(count) == count + 1

\* mutant: the ceiling check is gone
CeilingNeverExceeded(count) == FALSE

CeilingExceeded(count) == count > MAX_POLL_COUNT

\* mutant: the fetch asks for the first page whatever the page context is
RequestedDefaultPage(page, size) == << DefaultPage, DefaultPerPage >>

\* payoutService.getPayouts(this.currentPage, this.perPage), read when the fetch
\* closure runs: for its first attempt that is when the tick begins
RequestedPage(page, size) == << page, size >>

\* The callback finds the coordinator Idle and does nothing.
PollTimerIdle(k) ==
    /\ Due(k) /\ timers[k].kind = "poll"
    /\ ~TimerCallbackRuns
    /\ UNCHANGED << functions, ticks >>
    /\ ev' = Ev("pollTimerIdle")
    /\ timers' = Fired(timers, pollInterval, k).timers
    /\ pollInterval' = Fired(timers, pollInterval, k).pollInterval
    /\ calls' = << >>
    /\ UNCHANGED << isPolling, pollCount, lastUpdate, error, currentPayouts,
                    currentPage, perPage, subs, inFlight, now, made, handles, session >>

\* `polling-${this.pollCount}`
PollingId(pollNo) == << "polling", pollNo >>

\* the history keeps the ids of the last TicksKept ticks
Latest(ids) == IF Len(ids) > TicksKept THEN Tail(ids) ELSE ids

\* the correlation id performPoll gives to retry
CorrelationIdOf(count) == PollingId(count)

\* performPoll: pollCount++, then the retried fetch is issued and awaited.
PollTimerFetch(k) ==
    /\ Due(k) /\ timers[k].kind = "poll"
    /\ TimerCallbackRuns
    /\ ~CeilingExceeded(NextPollCount(pollCount))
    /\ UNCHANGED functions
    /\ ticks' = Latest(Append(ticks, CorrelationIdOf(NextPollCount(pollCount))))
    /\ ev' = [Ev("fetch") EXCEPT
                 !.poll = [pollNo |-> NextPollCount(pollCount), stopped |-> FALSE,
                           held |-> currentPayouts],
                 !.arg = RequestedPage(currentPage, perPage)]
    /\ timers' = Fired(timers, pollInterval, k).timers
    /\ pollInterval' = Fired(timers, pollInterval, k).pollInterval
    /\ pollCount' = NextPollCount(pollCount)
    /\ inFlight' = Append(inFlight, [pollNo |-> NextPollCount(pollCount), stopped |-> FALSE,
                                     held |-> currentPayouts])
    /\ calls' = << >>
    /\ session' = [session EXCEPT !.fetched = TRUE, !.updated = Append(@, FALSE)]
    /\ UNCHANGED << isPolling, lastUpdate, error, currentPayouts,
                    currentPage, perPage, subs, now, made, handles >>

\* performPoll: pollCount++ passes the ceiling, stopPolling(), return; the
\* scheduleNextPoll() that follows the await finds the coordinator Idle.
PollTimerCeiling(k) ==
    /\ Due(k) /\ timers[k].kind = "poll"
    /\ TimerCallbackRuns
    /\ CeilingExceeded(NextPollCount(pollCount))
    /\ LET fired == Fired(timers, pollInterval, k)
           next == ScheduleNextPoll(FALSE, StopTimers(fired.timers, fired.pollInterval),
                                    NullTimer)
       IN  /\ UNCHANGED << functions, ticks >>
           /\ ev' = Ev("ceiling")
           /\ pollCount' = NextPollCount(pollCount)
           /\ isPolling' = FALSE
           /\ calls' = NotifyStatusChange(
                           GetStatus(FALSE, lastUpdate, error, NextPollCount(pollCount)))
           /\ timers' = next.timers
           /\ pollInterval' = next.pollInterval
           /\ inFlight' = MarkStopped(inFlight)
           /\ session' = [session EXCEPT !.ceiling = TRUE]
           /\ UNCHANGED << lastUpdate, error, currentPayouts, currentPage,
                           perPage, subs, now, made, handles >>

(***************************************************************************)
(* The timeout callback of the failure branch (lines 269-273).             *)
(***************************************************************************)
ErrorTimerFires(k) ==
    /\ Due(k) /\ timers[k].kind = "error"
    /\ LET fired == Fired(timers, pollInterval, k)
           next == IF isPolling
                   THEN ScheduleNextPoll(isPolling, fired.timers, fired.pollInterval)
                   ELSE fired
       IN  /\ UNCHANGED << functions, ticks >>
           /\ ev' = Ev("errorTimer")
           /\ timers' = next.timers
           /\ pollInterval' = next.pollInterval
           /\ calls' = << >>
           /\ UNCHANGED << isPolling, pollCount, lastUpdate, error, currentPayouts,
                           currentPage, perPage, subs, inFlight, now, made, handles, session >>

(***************************************************************************)
(* The retried fetch of the poll at place i settles: the rest of           *)
(* performPoll (lines 232-275), then the scheduleNextPoll() of line 204.   *)
(* Neither branch looks at the active flag before it applies the result.   *)
(***************************************************************************)
\* mutant: the subscribers are handed the changed items only
ChangePayloadChangesOnly(changes, newPayouts) == changes

\* what the onChange subscribers are handed: notifyPayoutUpdates(newPayouts)
ChangePayload(changes, newPayouts) == newPayouts

\* mutant: the diff is made against the list held when the tick began
DiffBaseAtTick(held, current) == held

\* the list the fetched one is compared with: this.currentPayouts, read after the
\* await
DiffBase(held, current) == current

SettleSuccess(i, newPayouts) ==
    /\ i \in DOMAIN inFlight
    /\ LET poll == inFlight[i]
           changes == DetectChanges(DiffBase(poll.held, currentPayouts), newPayouts)
           next == ScheduleNextPoll(isPolling, timers, pollInterval)
       IN  /\ UNCHANGED << functions, ticks >>
           /\ ev' = [Ev("settleSuccess") EXCEPT !.arg = newPayouts, !.poll = poll,
                                               !.changed = Len(changes) > 0,
                                               !.changes = changes,
                                               !.updated = session.updated[i]]
           /\ inFlight' = RemoveAt(inFlight, i)
           /\ IF Len(changes) > 0
              THEN /\ currentPayouts' = newPayouts
                   /\ lastUpdate' = DateOf(now)
                   /\ error' = NoError
                   /\ calls' = NotifyPayoutUpdates(ChangePayload(changes, newPayouts))
                                 \o NotifyStatusChange(
                                      GetStatus(isPolling, DateOf(now), NoError, pollCount))
              ELSE /\ lastUpdate' = DateOf(now)
                   /\ error' = NoError
                   /\ calls' = NotifyStatusChange(
                                   GetStatus(isPolling, DateOf(now), NoError, pollCount))
                   /\ UNCHANGED currentPayouts
           /\ timers' = next.timers
           /\ pollInterval' = next.pollInterval
           /\ session' = [session EXCEPT !.settled = "success", !.settledAt = now,
                                         !.updated = RemoveAt(@, i)]
           /\ UNCHANGED << isPolling, pollCount, currentPage, perPage, subs, now, made, handles >>

\* mutant: every failure is reported with the generic message
ErrorMessageGeneric(err) == "Unable to fetch payout updates"

ErrorMessage(err) ==
    IF err.type = "Error" THEN err.message
    ELSE IF err.type = "string" THEN err.message
    ELSE "Unable to fetch payout updates"

\* the timeouts armed once a failed poll has returned: the error timeout of
\* lines 268-274, then the steady-state one of line 204
AfterFailure(active, ts, pi) ==
    LET waited == IF active
                  THEN SetTimeout(ts, "error", ERROR_RETRY_DELAY)
                  ELSE [timers |-> ts, pollInterval |-> pi]
    IN  ScheduleNextPoll(active, waited.timers, waited.pollInterval)

SettleFailure(i, err) ==
    /\ i \in DOMAIN inFlight
    /\ LET poll == inFlight[i]
           next == AfterFailure(isPolling, timers, pollInterval)
       IN  /\ UNCHANGED << functions, ticks >>
           /\ ev' = [Ev("settleFailure") EXCEPT !.poll = poll, !.err = err]
           /\ inFlight' = RemoveAt(inFlight, i)
           /\ error' = ErrorMessage(err)
           /\ calls' = NotifyStatusChange(
                           GetStatus(isPolling, lastUpdate, ErrorMessage(err), pollCount))
           /\ timers' = next.timers
           /\ pollInterval' = next.pollInterval
           /\ session' = [session EXCEPT !.settled = "failure", !.settledAt = now,
                                         !.updated = RemoveAt(@, i)]
           /\ UNCHANGED << isPolling, pollCount, lastUpdate, currentPayouts,
                           currentPage, perPage, subs, now, made, handles >>

(***************************************************************************)
(* Time.  A timeout fires no earlier than its deadline, and time does not  *)
(* pass a deadline while its callback is still to run.                     *)
(***************************************************************************)
NoneDue == \A k \in DOMAIN timers : timers[k].at > now
NextDeadline == Min({timers[k].at : k \in DOMAIN timers})

\* time passes up to the next deadline
AdvanceTime ==
    /\ timers # << >>
    /\ NoneDue
    /\ now' = NextDeadline
    /\ UNCHANGED << functions, ticks >>
    /\ ev' = Ev("time")
    /\ calls' = << >>
    /\ UNCHANGED << svc, subs, timers, inFlight, made, handles, session >>

(***************************************************************************)
(* The next-state relation: a call of a public method, a timeout callback, *)
(* the settlement of a poll, or the passing of time.                       *)
(***************************************************************************)
PublicMethod ==
    \/ \E p \in PolledSnapshots : StartPolling(p)
    \/ StopPolling
    \/ \E p \in PolledSnapshots : UpdateCurrentPayouts(p)
    \/ \E c \in PageContexts : UpdateCurrentPage(c[1], c[2])
    \/ \E cb \in Callbacks : OnPayoutUpdate(cb)
    \/ \E cb \in Callbacks : UnsubscribePayoutUpdate(cb)
    \/ \E cb \in Callbacks : OnStatusChange(cb)
    \/ \E cb \in Callbacks : UnsubscribeStatusChange(cb)
    \/ \E cb \in Callbacks : UnsubscribePayoutUpdateAgain(cb)
    \/ \E cb \in Callbacks : UnsubscribeStatusChangeAgain(cb)
    \/ Destroy

Settlement ==
    \/ \E i \in DOMAIN inFlight, p \in PolledSnapshots : SettleSuccess(i, p)
    \/ \E i \in DOMAIN inFlight, e \in FetchErrors : SettleFailure(i, e)

\* Spec: at most MaxCalls public calls within the first MaxClock ms.  No error
\* timeout, armed ERROR_RETRY_DELAY ahead by a poll that began POLL_INTERVAL after
\* a start, is due by then.
Next ==
    \/ made < MaxCalls /\ PublicMethod
    \/ \E k \in DOMAIN timers : PollTimerIdle(k)
    \/ \E k \in DOMAIN timers : PollTimerFetch(k)
    \/ Settlement
    \/ timers # << >> /\ NextDeadline <= MaxClock /\ AdvanceTime

Spec == Init /\ [][Next]_vars

\* The two specifications below follow the timeouts over a longer time.  In them
\* the list does not change: the page subscribes to the status, starts with the
\* list it holds and stops, and a poll that succeeds finds that list.
LifecycleMethod ==
    \/ StartPolling(currentPayouts)
    \/ StopPolling
    \/ \E cb \in Callbacks : OnStatusChange(cb)

\* SpecErrorRetry: long enough for the error timeout of a failed first poll to
\* fire and for the timeouts pending then to come due.
ErrorRetryClock == ERROR_RETRY_DELAY + 2 * POLL_INTERVAL

NextErrorRetry ==
    \/ made < MaxLifecycleCalls /\ LifecycleMethod
    \/ \E k \in DOMAIN timers : PollTimerIdle(k)
    \/ \E k \in DOMAIN timers : PollTimerFetch(k)
    \/ \E k \in DOMAIN timers : ErrorTimerFires(k)
    \/ \E i \in DOMAIN inFlight : SettleSuccess(i, currentPayouts)
    \/ \E i \in DOMAIN inFlight, e \in FetchErrors : SettleFailure(i, e)
    \/ timers # << >> /\ NextDeadline <= ErrorRetryClock /\ AdvanceTime

SpecErrorRetry == Init /\ [][NextErrorRetry]_vars

\* SpecCeiling: a session that runs to the poll-count ceiling.  Once started the
\* session is left alone, no poll failing, until it is within NearCeiling ticks of
\* the ceiling; from there on the page acts and polls fail again.
Quiet == isPolling /\ pollCount < MAX_POLL_COUNT - NearCeiling

CeilingClock == (MAX_POLL_COUNT + 1) * POLL_INTERVAL + ExtraTime

NextCeiling ==
    \/ ~Quiet /\ made < MaxLifecycleCalls /\ LifecycleMethod
    \/ \E k \in DOMAIN timers : PollTimerIdle(k)
    \/ \E k \in DOMAIN timers : PollTimerFetch(k)
    \/ \E k \in DOMAIN timers : PollTimerCeiling(k)
    \/ \E k \in DOMAIN timers : ErrorTimerFires(k)
    \/ \E i \in DOMAIN inFlight : SettleSuccess(i, currentPayouts)
    \/ ~Quiet /\ \E i \in DOMAIN inFlight, e \in FetchErrors : SettleFailure(i, e)
    \/ timers # << >> /\ NextDeadline <= CeilingClock /\ AdvanceTime

SpecCeiling == Init /\ [][NextCeiling]_vars

(***************************************************************************)
(* detectChanges on its own.  SpecDiff calls it on every pair of lists of  *)
(* at most MaxId payouts with ids in 1..MaxId, unique in a list, each      *)
(* payout with a status and an amount.                                     *)
(***************************************************************************)
Statuses == {"pending", "succeeded"}
Amounts == {100, 250}
DiffPayouts == [id : 1..MaxId, status : Statuses, amount : Amounts]

RECURSIVE SeqsUpTo(_, _)
SeqsUpTo(S, n) ==
    IF n = 0 THEN {<< >>}
    ELSE LET shorter == SeqsUpTo(S, n - 1)
         IN  shorter \cup {Append(q, x) : q \in shorter, x \in S}

DiffSnapshots ==
    {q \in SeqsUpTo(DiffPayouts, MaxId) :
        \A i, j \in DOMAIN q : q[i].id = q[j].id => i = j}

InitDiff ==
    /\ Constructed
    /\ retry = NoRetryCall
    /\ classify = NoClassifyCall
    /\ wire = NoServiceCall
    /\ round = NoRound
    /\ \E oldPayouts, newPayouts \in DiffSnapshots :
          detect = [called |-> FALSE, oldPayouts |-> oldPayouts, newPayouts |-> newPayouts]

DetectChangesCall ==
    /\ ~detect.called
    /\ detect' = [called |-> TRUE, oldPayouts |-> detect.oldPayouts,
                  newPayouts |-> detect.newPayouts,
                  changes |-> DetectChanges(detect.oldPayouts, detect.newPayouts)]
    /\ UNCHANGED << coordinator, retry, classify, wire, round >>

NextDiff == DetectChangesCall

SpecDiff == InitDiff /\ [][NextDiff]_vars

(***************************************************************************)
(* retryService.retry on its own (retryService.ts:464-561).  One action is *)
(* one run of the loop between two awaits: an attempt whose operation      *)
(* resolves, an attempt whose operation rejects, and the end of a sleep.   *)
(* A message is the sequence of its words; String.includes is containment *)
(* of a run of words.                                                      *)
(***************************************************************************)
Includes(msg, pat) ==
    \E i \in 0..(Len(msg) - Len(pat)) : SubSeq(msg, i + 1, i + Len(pat)) = pat

\* what response.json() of error.response yields: the parsed body, or a throw
NoResponse == [present |-> FALSE, parses |-> FALSE, error |-> "", message |-> "", retry_after |-> 0]
Body(code, message, retryAfter) ==
    [present |-> TRUE, parses |-> TRUE, error |-> code, message |-> message,
     retry_after |-> retryAfter]
Unparsable == [present |-> TRUE, parses |-> FALSE, error |-> "", message |-> "", retry_after |-> 0]

\* a value the operation rejects with
Thrown(type, message, status, code, response) ==
    [type |-> type, message |-> message, status |-> status, error |-> code,
     response |-> response]

FailedToFetch == Thrown("TypeError", << "Failed", "to", "fetch" >>, 0, "", NoResponse)
ConnectionRefused == Thrown("Error", << "net", "ERR_CONNECTION_REFUSED" >>, 0, "", NoResponse)
Http503 ==
    Thrown("Error", << "HTTP", "503" >>, 503, "",
           Body("service_unavailable", "try later", 5))
Http429 == Thrown("Error", << "HTTP", "429" >>, 429, "", Unparsable)
Http400 ==
    Thrown("Error", << "HTTP", "400" >>, 400, "", Body("validation_error", "bad request", 0))
\* fetch aborted by AbortSignal.timeout: a DOMException named TimeoutError
RequestTimedOut == Thrown("DOMException", << "signal", "timed", "out" >>, 0, "", NoResponse)
\* a rejection without a reason, Promise.reject(): the caught value is undefined
ThrownUndefined == Thrown("undefined", << >>, 0, "", NoResponse)
NothingThrown == Thrown("none", << >>, 0, "", NoResponse)

Rejections ==
    {FailedToFetch, ConnectionRefused, RequestTimedOut, Http503, Http429, Http400,
     ThrownUndefined}

RetryableStatusCodes == {429, 500, 502, 503, 504, 408}
RetryableErrorCodes ==
    {"rate_limit_exceeded", "database_connection_error", "external_service_unavailable",
     "payment_provider_error", "internal_server_error", "service_unavailable"}

IsRetryableError(e) ==
    IF e.type = "TypeError" /\ Includes(e.message, << "fetch" >>)
    THEN ~Includes(e.message, << "Failed", "to", "fetch" >>)
    ELSE IF e.message # << >>
            /\ (\/ Includes(e.message, << "ERR_CONNECTION_REFUSED" >>)
                \/ Includes(e.message, << "ERR_NETWORK_CHANGED" >>)
                \/ Includes(e.message, << "ERR_INTERNET_DISCONNECTED" >>)
                \/ Includes(e.message, << "ERR_CONNECTION_TIMED_OUT" >>)
                \/ Includes(e.message, << "connection" >>))
    THEN TRUE
    ELSE IF e.status # 0 THEN e.status \in RetryableStatusCodes
    ELSE IF e.error # "" THEN e.error \in RetryableErrorCodes
    ELSE FALSE

\* backendError: BackendErrorResponse | null
NoBackendError == [isNull |-> TRUE, error |-> "", message |-> "", retry_after |-> 0]

ExtractBackendError(response) ==
    IF response.parses /\ response.error # "" /\ response.message # ""
    THEN [isNull |-> FALSE, error |-> response.error, message |-> response.message,
          retry_after |-> response.retry_after]
    ELSE NoBackendError

ServerUnavailable ==
    Thrown("Error", << "Server", "is", "currently", "unavailable.", "Please", "try",
                       "again", "later." >>, 0, "", NoResponse)

FinalError(e) ==
    IF e.type = "TypeError" /\ Includes(e.message, << "Failed", "to", "fetch" >>)
    THEN ServerUnavailable
    ELSE e

RECURSIVE Pow(_, _)
Pow(b, n) == IF n = 0 THEN 1 ELSE b * Pow(b, n - 1)

\* 0.5 + Math.random() * 0.5, in percent
JitterPercents == {50, 75, 99}

CalculateDelay(attempt, config, retryAfter, percent) ==
    IF retryAfter # 0 THEN retryAfter * 1000
    ELSE LET delay == Min({config.baseDelay * Pow(config.exponentialBase, attempt),
                           config.maxDelay})
         IN  IF config.jitter THEN (delay * percent) \div 100 ELSE delay

\* the policies retry is called with
RetryPolicies ==
    [maxRetries : 0..MaxRetries, baseDelay : {1000}, maxDelay : {3000, 8000},
     exponentialBase : {2}, jitter : BOOLEAN]

NoResult == [settled |-> "no", success |-> FALSE, attempts |-> 0, error |-> NothingThrown,
             finalError |-> NoBackendError]
Return(success, attempts, e, backendError) ==
    [settled |-> "returned", success |-> success, attempts |-> attempts, error |-> e,
     finalError |-> backendError]
\* the promise of retry rejects
Raised == [settled |-> "raised", success |-> FALSE, attempts |-> 0, error |-> NothingThrown,
           finalError |-> NoBackendError]

\* the locals of retry(fn, config) at the head of its loop
NewRetry(config) ==
    [pc |-> "attempt", config |-> config, attempt |-> 0,
     lastError |-> NothingThrown, backendError |-> NoBackendError,
     invocations |-> 0, outcomes |-> << >>, thrown |-> << >>, sleeps |-> << >>,
     result |-> NoResult]

\* retry(fn, config) has been called and is at the head of its loop
InitRetry ==
    /\ Constructed
    /\ detect = NoDetectCall
    /\ classify = NoClassifyCall
    /\ wire = NoServiceCall
    /\ round = NoRound
    /\ \E config \in RetryPolicies : retry = NewRetry(config)

\* mutant: the result reports the loop index
AttemptsIsIndex(attempt) == attempt

\* attempts: attempt + 1
Attempts(attempt) == attempt + 1

\* mutant: no failure ends the call before the last attempt
NothingIsFatal(e) == FALSE

\* `if (!this.isRetryableError(error))`
IsFatal(e) == ~IsRetryableError(e)

\* mutant: no attempt is taken for the last one
NeverLastAttempt(attempt, config) == FALSE

\* `if (attempt === finalConfig.maxRetries)`
IsLastAttempt(attempt, config) == attempt = config.maxRetries

\* the loop is at `await fn()`
AtAttempt(r) == r.pc = "attempt" /\ r.attempt <= r.config.maxRetries

\* `await fn()` resolves: the locals after the return
Resolved(r) ==
    [r EXCEPT
        !.pc = "done",
        !.invocations = @ + 1,
        !.outcomes = Append(@, "success"),
        !.result = Return(TRUE, Attempts(r.attempt), NothingThrown, NoBackendError)]

\* `await fn()` rejects with e: the locals after the catch block
Rejected(r, e, percent) ==
    LET backendError == IF e.response.present
                        THEN ExtractBackendError(e.response)
                        ELSE r.backendError
        tried == [r EXCEPT
                     !.invocations = @ + 1,
                     !.lastError = e,
                     !.thrown = Append(@, e),
                     !.outcomes = Append(@, IF e.type = "undefined" THEN "undefined"
                                            ELSE IF IsRetryableError(e) THEN "retryable"
                                            ELSE "fatal")]
    IN  IF e.type = "undefined"
        THEN [tried EXCEPT !.pc = "done", !.result = Raised]
        ELSE IF IsFatal(e)
        THEN [tried EXCEPT
                 !.pc = "done", !.backendError = backendError,
                 !.result = Return(FALSE, Attempts(r.attempt), FinalError(e),
                                   backendError)]
        ELSE IF IsLastAttempt(r.attempt, r.config)
        THEN [tried EXCEPT
                 !.pc = "done", !.backendError = backendError,
                 !.result = Return(FALSE, Attempts(r.attempt), FinalError(e),
                                   backendError)]
        ELSE [tried EXCEPT
                 !.pc = "sleeping", !.backendError = backendError,
                 !.sleeps = Append(@, CalculateDelay(r.attempt, r.config,
                                                     backendError.retry_after, percent))]

\* `await this.sleep(delay)` resolves: attempt++, and the loop condition
Slept(r) ==
    IF r.attempt + 1 <= r.config.maxRetries
    THEN [r EXCEPT !.pc = "attempt", !.attempt = @ + 1]
    ELSE [r EXCEPT
             !.pc = "done", !.attempt = @ + 1,
             !.result = Return(FALSE, r.config.maxRetries + 1, r.lastError,
                               r.backendError)]

AttemptSucceeds ==
    /\ AtAttempt(retry)
    /\ retry' = Resolved(retry)
    /\ UNCHANGED << coordinator, detect, classify, wire, round >>

AttemptFails(e, percent) ==
    /\ AtAttempt(retry)
    /\ retry' = Rejected(retry, e, percent)
    /\ UNCHANGED << coordinator, detect, classify, wire, round >>

SleepEnds ==
    /\ retry.pc = "sleeping"
    /\ retry' = Slept(retry)
    /\ UNCHANGED << coordinator, detect, classify, wire, round >>

NextRetry ==
    \/ AttemptSucceeds
    \/ \E e \in Rejections, percent \in JitterPercents : AttemptFails(e, percent)
    \/ SleepEnds

SpecRetry == InitRetry /\ [][NextRetry]_vars

(***************************************************************************)
(* isRetryableError on its own.  The failures it is given: the Error a     *)
(* service throws for a response that is not ok, with the status of the    *)
(* response and the text of the backend as its message, a failure object   *)
(* with a backend error code, and the TypeError of fetch.                  *)
(***************************************************************************)
ClientErrorStatusCodes == {400, 401, 403, 404}

ClassifyMessages ==
    { << >>,
      << "Failed", "to", "fetch", "payouts" >>,
      << "Invalid", "request" >>,
      << "Database", "connection", "failed" >>,
      << "net", "ERR_CONNECTION_REFUSED" >> }

FetchTypeErrorMessages ==
    { << "Failed", "to", "fetch" >>,
      << "NetworkError", "when", "attempting", "to", "fetch", "resource." >> }

ClassifyCodes == {"", "rate_limit_exceeded", "service_unavailable", "validation_error"}

BackendDownStatusCodes == {502, 503, 504}
BackendDownErrorCodes ==
    {"database_connection_error", "external_service_unavailable", "service_unavailable"}

IsBackendDownError(e) ==
    IF e.message # << >>
       /\ (\/ Includes(e.message, << "ERR_CONNECTION_REFUSED" >>)
           \/ Includes(e.message, << "Failed", "to", "fetch" >>)
           \/ Includes(e.message, << "NetworkError" >>))
    THEN TRUE
    ELSE IF e.status # 0 /\ e.status \in BackendDownStatusCodes THEN TRUE
    ELSE IF e.error # "" /\ e.error \in BackendDownErrorCodes THEN TRUE
    ELSE FALSE

ClassifyFailures ==
    {Thrown("Error", m, st, c, NoResponse) :
        m \in ClassifyMessages,
        st \in {0} \cup RetryableStatusCodes \cup ClientErrorStatusCodes,
        c \in ClassifyCodes}
    \cup {Thrown("TypeError", m, 0, "", NoResponse) : m \in FetchTypeErrorMessages}

InitClassify ==
    /\ Constructed
    /\ detect = NoDetectCall
    /\ retry = NoRetryCall
    /\ wire = NoServiceCall
    /\ round = NoRound
    /\ \E e \in ClassifyFailures : classify = [called |-> FALSE, failure |-> e]

\* the failure is given to isRetryableError and to isBackendDownError
IsRetryableErrorCall ==
    /\ ~classify.called
    /\ classify' = [called |-> TRUE, failure |-> classify.failure,
                    retryable |-> IsRetryableError(classify.failure),
                    down |-> IsBackendDownError(classify.failure)]
    /\ UNCHANGED << coordinator, detect, retry, wire, round >>

NextClassify == IsRetryableErrorCall

SpecClassify == InitClassify /\ [][NextClassify]_vars

(***************************************************************************)
(* The service calls and the requests they send.  A service call builds    *)
(* its headers once, createHeadersWithCorrelationId minting the            *)
(* X-Correlation-ID, and hands retryService.retry a closure that sends the *)
(* request with those headers; the wire keeps every request sent.  A frame *)
(* is a service call in progress with the locals of its retry; a call made *)
(* inside an attempt is a frame on top of the caller's.  The n-th id       *)
(* generateCorrelationId returns is Uuid(n), the n-th key                  *)
(* generateIdempotencyKey returns is Key(n).                               *)
(***************************************************************************)
QUICK ==
    [maxRetries |-> 2, baseDelay |-> 500, maxDelay |-> 2000, exponentialBase |-> 2,
     jitter |-> TRUE]
STANDARD ==
    [maxRetries |-> 3, baseDelay |-> 1000, maxDelay |-> 10000, exponentialBase |-> 2,
     jitter |-> TRUE]
AGGRESSIVE ==
    [maxRetries |-> 5, baseDelay |-> 1000, maxDelay |-> 30000, exponentialBase |-> 2,
     jitter |-> TRUE]
CONSERVATIVE ==
    [maxRetries |-> 2, baseDelay |-> 2000, maxDelay |-> 15000, exponentialBase |-> 2,
     jitter |-> TRUE]

NoId == << "none", 0 >>
Uuid(n) == << "uuid", n >>
NoKey == << "none", 0 >>
\* the poll tick a service call is made in: the call of retry by performPoll and the
\* correlation id performPoll passed to it
NoTick == [call |-> 0, passed |-> NoId]
Key(n) == << "payout", n >>

\* the services that mint their headers and call retry with a fetch closure
Services == {"createPayout", "getPayouts", "initiateLogin", "getCurrentUser", "refreshToken"}

PolicyOf(op) ==
    CASE op = "createPayout" -> AGGRESSIVE
      [] op = "refreshToken" -> QUICK
      [] op = "performPoll" -> CONSERVATIVE
      [] OTHER -> STANDARD

\* the Error a service closure throws for a response that is not ok: the status
\* and the response, whose body the closure has read already
ServiceError(status, message) == Thrown("Error", message, status, "", Unparsable)

\* a response that is not ok: its status and the message of its body
\* (errorData.detail, errorData.error_description)
NoErrorResponse == [status |-> 0, detail |-> << >>]
ErrorResponses ==
    { [status |-> 503, detail |-> << "Service", "unavailable" >>],
      [status |-> 401, detail |-> << "Your", "session", "has", "expired" >>] }

\* fetch itself rejects
NetworkFailures == {FailedToFetch}

DefaultMessage(op) ==
    CASE op = "createPayout" -> << "Failed", "to", "create", "payout" >>
      [] op = "getPayouts" -> << "Failed", "to", "fetch", "payouts" >>
      [] op = "initiateLogin" -> << "Failed", "to", "initiate", "login" >>
      [] op = "getCurrentUser" -> << "Failed", "to", "get", "user", "info" >>
      [] OTHER -> << "Token", "refresh", "failed" >>

\* errorMessage.includes('session has expired') || errorMessage.includes('expired')
IsSessionExpired(message) ==
    Includes(message, << "session", "has", "expired" >>) \/ Includes(message, << "expired" >>)

\* the closures that replace a session-expired message: every one but initiateLogin's
RewritesExpired(op) == op \in {"createPayout", "getPayouts", "getCurrentUser", "refreshToken"}

ClosureErrorMessage(op, detail) ==
    LET errorMessage == IF detail # << >> THEN detail ELSE DefaultMessage(op)
    IN  IF RewritesExpired(op) /\ IsSessionExpired(errorMessage)
        THEN ServerUnavailable.message
        ELSE errorMessage

\* the closure's `if (!response.ok) { ...; throw error }`
ResponseError(op, response) ==
    ServiceError(response.status, ClosureErrorMessage(op, response.detail))

Frame(op, call, id, key, passed, tick) ==
    [op |-> op, call |-> call, id |-> id, key |-> key, passed |-> passed,
     tick |-> tick, waiting |-> IF op = "initiateLogin" THEN "health" ELSE "",
     r |-> NewRetry(PolicyOf(op))]

Depth == Len(wire.stack)
Top == wire.stack[Depth]
Below == SubSeq(wire.stack, 1, Depth - 1)

\* a service is called: createHeadersWithCorrelationId(), then retry(closure,
\* policy, headers["X-Correlation-ID"])
ServiceCalled(w, op, key, tick) ==
    [w EXCEPT
        !.minted = @ + 1,
        !.started = @ + 1,
        !.stack = Append(@, Frame(op, w.started + 1, Uuid(w.minted + 1), key,
                                  Uuid(w.minted + 1), tick))]

\* mutant: the closure builds its headers anew for each request
RequestIdPerAttempt(f, n) == Uuid(1000 + n)

\* the X-Correlation-ID of the n-th request, sent by the closure of frame f: the
\* headers object of the call
RequestId(f, n) == f.id

\* mutant: the closure generates the key anew for each request
RequestKeyPerAttempt(f, n) == IF f.op = "createPayout" THEN Key(1000 + n) ELSE NoKey

\* the Idempotency-Key of the n-th request, sent by the closure of frame f
RequestKey(f, n) == f.key

\* how the closure ends after the response
OutcomeOf(e) == IF IsRetryableError(e) THEN "retryable" ELSE "fatal"

\* a request on the wire, with the response to it and what the closure threw
Request(f, n, outcome, response, e) ==
    [kind |-> "attempt", op |-> f.op, call |-> f.call, attempt |-> f.r.attempt,
     id |-> RequestId(f, n), key |-> RequestKey(f, n), tick |-> f.tick,
     outcome |-> outcome, response |-> response, thrown |-> e]

Sent(w, f, outcome, response, e) ==
    [w EXCEPT !.sent = Append(@, Request(f, Len(w.sent) + 1, outcome, response, e))]

WithTop(w, f) == [w EXCEPT !.stack = Append(SubSeq(w.stack, 1, Len(w.stack) - 1), f)]

\* the page calls a service other than createPayout
CallService(op) ==
    /\ Depth = 0 /\ wire.started < MaxServiceCalls
    /\ wire' = ServiceCalled(wire, op, NoKey, NoTick)
    /\ UNCHANGED << coordinator, detect, retry, classify, round >>

\* handleSubmit of the payout form: generateIdempotencyKey(), then
\* onSubmit(payoutData), which calls createPayout(payoutData)
HandleSubmit ==
    /\ Depth = 0 /\ wire.started < MaxServiceCalls
    /\ wire' = ServiceCalled([wire EXCEPT !.keys = @ + 1, !.submitted = @ + 1],
                      "createPayout", Key(wire.keys + 1), NoTick)
    /\ UNCHANGED << coordinator, detect, retry, classify, round >>

\* performPoll reaches `await retryService.retry(closure, CONSERVATIVE,
\* `polling-${this.pollCount}`)`: no header is built here
PerformPollRetry(pollNo) ==
    /\ Depth = 0 /\ wire.started < MaxServiceCalls
    /\ wire' = [wire EXCEPT
                    !.started = @ + 1,
                    !.stack = Append(@, Frame("performPoll", wire.started + 1, NoId, NoKey,
                                              PollingId(pollNo),
                                              [call |-> wire.started + 1,
                                               passed |-> PollingId(pollNo)]))]
    /\ UNCHANGED << coordinator, detect, retry, classify, round >>

\* initiateLogin: checkBackendHealth sends GET /health without headers; when
\* it is not ok initiateLogin throws before it calls retry
CheckBackendHealth(healthy) ==
    /\ Depth > 0 /\ Top.waiting = "health"
    /\ Len(wire.sent) < MaxRequests
    /\ LET probe == [kind |-> "health", op |-> Top.op, call |-> Top.call, attempt |-> 0,
                     id |-> NoId, key |-> NoKey, tick |-> NoTick,
                     outcome |-> IF healthy THEN "ok" ELSE "down",
                     response |-> NoErrorResponse, thrown |-> NothingThrown]
           w == [wire EXCEPT !.sent = Append(@, probe)]
       IN  wire' = IF healthy
                   THEN WithTop(w, [Top EXCEPT !.waiting = ""])
                   ELSE [w EXCEPT !.stack = Below]
    /\ UNCHANGED << coordinator, detect, retry, classify, round >>

\* the closure of the top frame is at its fetch
AtFetch ==
    /\ Depth > 0 /\ Top.op \in Services /\ Top.waiting = ""
    /\ AtAttempt(Top.r)
    /\ Len(wire.sent) < MaxRequests

\* the request is sent and the response is ok
FetchOk ==
    /\ AtFetch
    /\ wire' = WithTop(Sent(wire, Top, "ok", NoErrorResponse, NothingThrown),
                       [Top EXCEPT !.r = Resolved(@)])
    /\ UNCHANGED << coordinator, detect, retry, classify, round >>

\* the request is sent and fetch rejects with e
FetchFails(e, percent) ==
    /\ AtFetch
    /\ wire' = WithTop(Sent(wire, Top, OutcomeOf(e), NoErrorResponse, e),
                       [Top EXCEPT !.r = Rejected(@, e, percent)])
    /\ UNCHANGED << coordinator, detect, retry, classify, round >>

\* the request is sent, the response is not ok and the closure throws the Error it
\* makes of it; getCurrentUser's closure does so for a status other than 401
FetchRejected(response, percent) ==
    /\ AtFetch
    /\ ~(Top.op = "getCurrentUser" /\ response.status = 401)
    /\ LET e == ResponseError(Top.op, response)
       IN  wire' = WithTop(Sent(wire, Top, OutcomeOf(e), response, e),
                           [Top EXCEPT !.r = Rejected(@, e, percent)])
    /\ UNCHANGED << coordinator, detect, retry, classify, round >>

\* getCurrentUser: the response is 401 and the closure calls refreshToken()
FetchUnauthorized ==
    /\ AtFetch /\ Top.op = "getCurrentUser" /\ Depth < MaxDepth
    /\ wire' = ServiceCalled(WithTop(Sent(wire, Top, "unauthorized",
                                          [status |-> 401, detail |-> << >>],
                                          NothingThrown),
                                     [Top EXCEPT !.waiting = "refreshToken"]),
                      "refreshToken", NoKey, Top.tick)
    /\ UNCHANGED << coordinator, detect, retry, classify, round >>

\* the closure of performPoll calls payoutService.getPayouts(page, perPage)
PollAttempt ==
    /\ Depth > 0 /\ Top.op = "performPoll" /\ Top.waiting = ""
    /\ AtAttempt(Top.r)
    /\ wire' = ServiceCalled(WithTop(wire, [Top EXCEPT !.waiting = "getPayouts"]),
                      "getPayouts", NoKey, Top.tick)
    /\ UNCHANGED << coordinator, detect, retry, classify, round >>

\* the sleep of the top frame's retry ends
ServiceSleepEnds ==
    /\ Depth > 0 /\ Top.r.pc = "sleeping"
    /\ wire' = WithTop(wire, [Top EXCEPT !.r = Slept(@)])
    /\ UNCHANGED << coordinator, detect, retry, classify, round >>

\* the retry of the top frame has returned: the service returns result.data or
\* throws result.error, to the closure that called it if there is one
ServiceSettles(percent) ==
    /\ Depth > 0 /\ Top.r.pc = "done"
    /\ LET result == Top.r.result
           popped == [wire EXCEPT !.stack = Below]
           caller == wire.stack[Depth - 1]
       IN  wire' =
             IF Depth = 1 THEN popped
             ELSE IF ~result.success
             THEN WithTop(popped, [caller EXCEPT
                                      !.waiting = "",
                                      !.r = Rejected(@, result.error, percent)])
             ELSE IF caller.waiting = "refreshToken"
             THEN ServiceCalled(WithTop(popped, [caller EXCEPT !.waiting = "getCurrentUser"]),
                         "getCurrentUser", NoKey, caller.tick)
             ELSE WithTop(popped, [caller EXCEPT !.waiting = "", !.r = Resolved(@)])
    /\ UNCHANGED << coordinator, detect, retry, classify, round >>

\* the jitter drawn in the service calls: the ends of Math.random()'s range
ServiceJitterPercents == {50, 99}

NextService ==
    \/ \E op \in Services \ {"createPayout"} : CallService(op)
    \/ HandleSubmit
    \/ \E pollNo \in 1..MaxTick : PerformPollRetry(pollNo)
    \/ \E healthy \in BOOLEAN : CheckBackendHealth(healthy)
    \/ FetchOk
    \/ \E e \in NetworkFailures, percent \in ServiceJitterPercents : FetchFails(e, percent)
    \/ \E response \in ErrorResponses, percent \in ServiceJitterPercents :
          FetchRejected(response, percent)
    \/ FetchUnauthorized
    \/ PollAttempt
    \/ ServiceSleepEnds
    \/ \E percent \in ServiceJitterPercents : ServiceSettles(percent)

SpecService == Init /\ [][NextService]_vars

(***************************************************************************)
(* One notification round on its own: the forEach of notifyPayoutUpdates   *)
(* and notifyStatusChange over the Set itself (usePolling.ts:309-328),     *)
(* with callbacks that subscribe or unsubscribe while it runs.  A Set      *)
(* keeps its entries in insertion order; delete empties the entry in       *)
(* place, add appends, and forEach goes on until it is past the last       *)
(* entry, those appended meanwhile included.                               *)
(***************************************************************************)
MaxInvocations == 6

Subscribers == Callbacks \cup {"cbC"}
Empty == "empty"

\* what a callback does when it is called: nothing, a call of onPayoutUpdate /
\* onStatusChange, or a call of a closure one of them returned
Effects ==
    {[op |-> "none", cb |-> ""]}
        \cup {[op |-> o, cb |-> c] : o \in {"add", "delete"}, c \in Subscribers}

EntriesAdd(entries, cb) ==
    IF \E i \in DOMAIN entries : entries[i] = cb THEN entries ELSE Append(entries, cb)
EntriesDelete(entries, cb) ==
    [i \in DOMAIN entries |-> IF entries[i] = cb THEN Empty ELSE entries[i]]
Effect(entries, does) ==
    CASE does.op = "add" -> EntriesAdd(entries, does.cb)
      [] does.op = "delete" -> EntriesDelete(entries, does.cb)
      [] OTHER -> entries

\* the Sets of callbacks, as the sequences of their entries
CallbackSets ==
    {s \in UNION {[1..n -> Subscribers] : n \in 0..Cardinality(Subscribers)} :
        \A i, j \in DOMAIN s : s[i] = s[j] => i = j}

InitNotify ==
    /\ Constructed
    /\ detect = NoDetectCall
    /\ retry = NoRetryCall
    /\ classify = NoClassifyCall
    /\ wire = NoServiceCall
    /\ \E began \in CallbackSets, does \in [Subscribers -> Effects] :
          round = [active |-> TRUE, began |-> began, does |-> does, entries |-> began,
                   index |-> 1, invoked |-> << >>]

RoundOver(r) == r.index > Len(r.entries)

\* forEach comes to an entry and calls its callback inside try/catch
InvokeCallback ==
    /\ round.active /\ ~RoundOver(round)
    /\ round.entries[round.index] # Empty
    /\ Len(round.invoked) < MaxInvocations
    /\ LET cb == round.entries[round.index]
       IN  round' = [round EXCEPT
                        !.entries = Effect(@, round.does[cb]),
                        !.invoked = Append(@, cb),
                        !.index = @ + 1]
    /\ UNCHANGED << coordinator, detect, retry, classify, wire >>

\* forEach comes to an entry that was deleted before it was reached
SkipDeleted ==
    /\ round.active /\ ~RoundOver(round)
    /\ round.entries[round.index] = Empty
    /\ round' = [round EXCEPT !.index = @ + 1]
    /\ UNCHANGED << coordinator, detect, retry, classify, wire >>

NextNotify ==
    \/ InvokeCallback
    \/ SkipDeleted

SpecNotify == InitNotify /\ [][NextNotify]_vars

(***************************************************************************)
(* Claims.  ev and calls describe the run that led to the primed state, so *)
(* a claim about one run is a property of a step.                          *)
(***************************************************************************)
SettleOps == {"settleSuccess", "settleFailure"}
StatusCalls(cs) == SelectSeq(cs, LAMBDA c : c.kind = "status")
PayoutCalls(cs) == SelectSeq(cs, LAMBDA c : c.kind = "payout")
CalledOnce(cs, callbacks) ==
    /\ Len(cs) = Len(callbacks)
    /\ \A i \in DOMAIN cs : cs[i].cb = callbacks[i]

\* C1: a poll that was in flight when stop() was called has no observable effect
\* when it settles: the held snapshot, lastUpdate and lastError stay as they are
\* and no onChange or onStatus subscriber is invoked.
C1_StoppedPollHasNoEffect ==
    [][ (ev'.op \in SettleOps /\ ev'.poll.stopped)
            => /\ currentPayouts' = currentPayouts
               /\ lastUpdate' = lastUpdate
               /\ error' = error
               /\ calls' = << >> ]_vars

\* C2: at most one poll tick is in flight at any time.
C2_AtMostOneInFlight == Len(inFlight) <= 1

\* C3: after a tick that failed no fetch is issued before the error interval has
\* elapsed, and after a tick that succeeded none before the steady-state interval.
C3_ErrorCadence ==
    [][ ev'.op = "fetch"
            => /\ session.settled = "failure"
                    => now - session.settledAt >= ERROR_RETRY_DELAY
               /\ session.settled = "success"
                    => now - session.settledAt >= POLL_INTERVAL ]_vars

\* C4: the tick that raises pollCount above the ceiling (1000) makes the
\* coordinator Idle without issuing a fetch and calls each onStatus subscriber
\* exactly once, with isPolling false; no other step passes the ceiling, and no
\* tick of that session issues a fetch afterwards.  (What a poll still in flight
\* at the auto-stop does when it settles is the matter of C1.)
C4_CeilingAutoStop ==
    [][ /\ ev'.op = "ceiling"
            => /\ isPolling /\ ~isPolling'
               /\ pollCount' = MAX_POLL_COUNT + 1
               /\ Len(inFlight') = Len(inFlight)
               /\ CalledOnce(calls', statusCallbacks)
               /\ \A i \in DOMAIN calls' :
                      /\ calls'[i].kind = "status"
                      /\ calls'[i].arg.isPolling = FALSE
                      /\ calls'[i].arg.pollCount = MAX_POLL_COUNT + 1
        /\ pollCount' > MAX_POLL_COUNT => ev'.op = "ceiling" \/ pollCount' = pollCount
        /\ ev'.op = "fetch" => pollCount' <= MAX_POLL_COUNT /\ ~session.ceiling ]_vars

\* C4 witness: the auto-stop has notified an onStatus subscriber, and a timeout
\* that was still pending then has since come due and found the coordinator Idle.
C4_Witness ==
    /\ session.ceiling
    /\ statusCallbacks # << >>
    /\ ev.op = "pollTimerIdle"

\* C5: once stop() was called before the first tick of a session fired, the fetch
\* operation is never invoked for that session.
C5_StopBeforeFirstTick == session.stoppedEarly => ~session.fetched

\* C5 witness: a session stopped before its first tick, at a time when a timeout
\* armed before the stop has come due and found the coordinator Idle.
C5_Witness ==
    /\ session.stoppedEarly
    /\ ev.op = "pollTimerIdle"
    /\ now >= session.startedAt + POLL_INTERVAL

\* C6: start() while Active changes nothing: no field, no subscriber set, no
\* timeout armed, no fetch issued, no notification.
C6_StartWhileActiveIsNoop ==
    [][ (ev'.op = "startPolling" /\ isPolling)
            => /\ UNCHANGED << svc, subs, timers, inFlight >>
               /\ calls' = << >> ]_vars

\* C6 witness: start() was called on an Active coordinator that had polled, with
\* a snapshot other than the held one.
C6_Witness ==
    /\ ev.op = "startPolling" /\ ev.active
    /\ pollCount > 0
    /\ ev.arg # currentPayouts

\* C7: start(initialSnapshot) from Idle sets the snapshot, pollCount 0, lastError
\* null and isActive, issues no fetch, and arms one timeout POLL_INTERVAL ahead,
\* so that the first fetch of the session comes no earlier than that.
C7_StartFromIdle ==
    [][ /\ (ev'.op = "startPolling" /\ ~isPolling)
            => /\ currentPayouts' = ev'.arg
               /\ pollCount' = 0
               /\ error' = NoError
               /\ isPolling'
               /\ inFlight' = inFlight
               /\ timers' = Append(timers, [kind |-> "poll", at |-> now + POLL_INTERVAL])
        /\ ev'.op = "fetch" => now >= session.startedAt + POLL_INTERVAL ]_vars

\* C8: pollCount changes only by a tick, which adds exactly one and runs only
\* while Active, and by a start() from Idle, which sets it to 0.
C8_PollCount ==
    [][ /\ ev'.op \in {"fetch", "ceiling"} => isPolling /\ pollCount' = pollCount + 1
        /\ pollCount' # pollCount
            => \/ ev'.op \in {"fetch", "ceiling"}
               \/ ev'.op = "startPolling" /\ ~isPolling /\ pollCount' = 0 ]_vars

\* C8 witness: the second tick of a session that followed a stopped one which had
\* polled too.
C8_Witness == ev.op = "fetch" /\ pollCount = 2 /\ made = 3

\* C9: a successful poll with an empty diff invokes no onChange subscriber, leaves
\* the held snapshot, and invokes every onStatus subscriber once with the
\* pollCount that the tick incremented.
C9_EmptyDiff ==
    [][ (ev'.op = "settleSuccess" /\ ~ev'.changed)
            => /\ currentPayouts' = currentPayouts
               /\ PayoutCalls(calls') = << >>
               /\ CalledOnce(StatusCalls(calls'), statusCallbacks)
               /\ \A i \in DOMAIN calls' :
                      calls'[i].arg.pollCount = ev'.poll.pollNo ]_vars

\* C10: a successful poll with a non-empty diff replaces the held snapshot by the
\* fetched one, sets lastUpdate, clears lastError, invokes every onChange
\* subscriber once with the full fetched list and every onStatus subscriber once
\* with the status as updated.
C10_NonEmptyDiff ==
    [][ (ev'.op = "settleSuccess" /\ ev'.changed)
            => /\ currentPayouts' = ev'.arg
               /\ lastUpdate' = DateOf(now)
               /\ error' = NoError
               /\ CalledOnce(PayoutCalls(calls'), payoutUpdateCallbacks)
               /\ \A i \in DOMAIN PayoutCalls(calls') :
                      PayoutCalls(calls')[i].arg = ev'.arg
               /\ CalledOnce(StatusCalls(calls'), statusCallbacks)
               /\ \A i \in DOMAIN StatusCalls(calls') :
                      StatusCalls(calls')[i].arg =
                          GetStatus(isPolling', lastUpdate', error', pollCount') ]_vars

\* C10 witness: a poll that found a second payout behind the held one settled
\* with an onChange and an onStatus subscriber registered.
C10_Witness ==
    /\ ev.op = "settleSuccess" /\ ev.changed
    /\ Len(ev.arg) = 2
    /\ payoutUpdateCallbacks # << >> /\ statusCallbacks # << >>
    /\ Len(calls) = 2

\* C11: a poll that ends in failure sets lastError to the failure's message (the
\* generic one when the failure carries none), calls every onStatus subscriber
\* once with that error and no onChange subscriber, and leaves the held list and
\* lastUpdate; a subscriber that throws does not cut the round short.
C11_FailedTick ==
    [][ ev'.op = "settleFailure"
            => /\ error' = IF ev'.err.type \in {"Error", "string"}
                            THEN ev'.err.message
                            ELSE "Unable to fetch payout updates"
               /\ error' # NoError
               /\ CalledOnce(StatusCalls(calls'), statusCallbacks)
               /\ \A i \in DOMAIN calls' :
                      /\ calls'[i].kind = "status"
                      /\ calls'[i].arg.error = error'
               /\ currentPayouts' = currentPayouts
               /\ lastUpdate' = lastUpdate ]_vars

\* C11 witness: a poll failed with an Error while subscribers of both kinds were
\* registered, after an earlier poll had succeeded.
C11_Witness ==
    /\ ev.op = "settleFailure" /\ ev.err.type = "Error"
    /\ error = ev.err.message
    /\ lastUpdate # NullDate
    /\ payoutUpdateCallbacks # << >> /\ Len(calls) > 0

\* C12: in every notification round each registered subscriber of the kind is
\* called once, in order, also after one of them has thrown; a step whose round
\* met a throwing subscriber arms its timeout and ends the awaited poll as usual.
C12_ThrowingSubscriber ==
    [][ /\ StatusCalls(calls') # << >>
            => CalledOnce(StatusCalls(calls'), statusCallbacks)
        /\ PayoutCalls(calls') # << >>
            => /\ CalledOnce(PayoutCalls(calls'), payoutUpdateCallbacks)
               /\ CalledOnce(StatusCalls(calls'), statusCallbacks)
        /\ (\E i \in DOMAIN calls' : calls'[i].threw)
            => /\ ev'.op = "startPolling"
                    => isPolling' /\ Len(timers') = Len(timers) + 1
               /\ ev'.op = "settleSuccess"
                    => /\ lastUpdate' = DateOf(now)
                       /\ Len(inFlight') = Len(inFlight) - 1
                       /\ isPolling => Len(timers') = Len(timers) + 1
               /\ ev'.op = "settleFailure"
                    => /\ Len(inFlight') = Len(inFlight) - 1
                       /\ isPolling => Len(timers') = Len(timers) + 2
               /\ ev'.op \in {"stopPolling", "destroy"}
                    => ~isPolling' /\ pollInterval' = NullTimer ]_vars

\* C12 witness: a poll with a non-empty diff settled while the throwing callback
\* was the first onChange subscriber, another one followed it, and the throwing
\* callback was an onStatus subscriber too.
C12_Witness ==
    /\ ev.op = "settleSuccess" /\ ev.changed /\ isPolling
    /\ Len(calls) = 3
    /\ calls[1].kind = "payout" /\ calls[1].threw
    /\ calls[2].kind = "payout" /\ ~calls[2].threw
    /\ calls[3].kind = "status" /\ calls[3].threw

\* C13: calling the closure returned by a subscribe call removes the subscription
\* made by that call and no other: a callback that another subscribe call
\* registered, and whose closure has not been called, stays registered, also when
\* it is the same callback; calling a closure once more changes nothing.
C13_Unsubscribe ==
    [][ /\ ev'.op \in {"unsubscribePayoutUpdate", "unsubscribeStatusChange"}
            => /\ \A cb \in Callbacks :
                      /\ handles'[<< "payout", cb >>].live > 0
                            => SetHas(payoutUpdateCallbacks', cb)
                      /\ handles'[<< "status", cb >>].live > 0
                            => SetHas(statusCallbacks', cb)
               /\ ev'.op = "unsubscribePayoutUpdate"
                    /\ handles'[<< "payout", ev'.cb >>].live = 0
                    => ~SetHas(payoutUpdateCallbacks', ev'.cb)
               /\ ev'.op = "unsubscribeStatusChange"
                    /\ handles'[<< "status", ev'.cb >>].live = 0
                    => ~SetHas(statusCallbacks', ev'.cb)
        /\ ev'.op \in {"unsubscribePayoutUpdateAgain", "unsubscribeStatusChangeAgain"}
            => UNCHANGED subs ]_vars

\* C14: updateCurrentPayouts(list) replaces the held list and nothing else: no
\* timeout is armed or cleared, no fetch issued, isPolling, pollCount, lastUpdate
\* and error stay, and no subscriber is called.
C14_UpdateSnapshotFrame ==
    [][ ev'.op = "updateCurrentPayouts"
            => /\ currentPayouts' = ev'.arg
               /\ UNCHANGED << pollInterval, isPolling, pollCount, lastUpdate, error,
                               currentPage, perPage, subs, timers, inFlight, now >>
               /\ calls' = << >> ]_vars

\* C14 witness: the held list was replaced by another one between two ticks of an
\* Active session that has subscribers, a timeout pending.
C14_Witness ==
    /\ ev.op = "updateCurrentPayouts" /\ ev.active
    /\ currentPayouts = ev.arg
    /\ pollCount > 0 /\ timers # << >>
    /\ statusCallbacks # << >>

\* C15: updateCurrentPage(page, perPage) sets the page context and nothing else (no
\* fetch, no timeout armed or cleared, no subscriber called); the page context
\* changes in no other way, and the fetch of a tick asks for the page context as
\* it is when the tick begins.
C15_UpdatePageContext ==
    [][ /\ ev'.op = "updateCurrentPage"
            => /\ << currentPage', perPage' >> = ev'.arg
               /\ UNCHANGED << pollInterval, isPolling, pollCount, lastUpdate, error,
                               currentPayouts, subs, timers, inFlight, now >>
               /\ calls' = << >>
        /\ << currentPage', perPage' >> # << currentPage, perPage >>
            => ev'.op = "updateCurrentPage"
        /\ ev'.op = "fetch" => ev'.arg = << currentPage, perPage >> ]_vars

\* C15 witness: the second tick of a session asks for a page other than the first
\* one.
C15_Witness ==
    /\ ev.op = "fetch" /\ ev.poll.pollNo = 2
    /\ ev.arg # << DefaultPage, DefaultPerPage >>

\* C18: after a successful poll of an Active session the held list is the list
\* just fetched.
C18_HeldIsFetched ==
    [][ (ev'.op = "settleSuccess" /\ isPolling /\ ~ev'.poll.stopped)
            => currentPayouts' = ev'.arg ]_vars

\* the items of a list, and whether one list is a subsequence of another
Items(q) == {q[i] : i \in DOMAIN q}
RECURSIVE IsSubsequence(_, _)
IsSubsequence(a, b) ==
    IF a = << >> THEN TRUE
    ELSE IF b = << >> THEN FALSE
    ELSE IF Head(a) = Head(b) THEN IsSubsequence(Tail(a), Tail(b))
    ELSE IsSubsequence(a, Tail(b))

\* C16: detectChanges reports exactly the items of the new list whose id is in
\* the old list with another status or is not in the old list, each once; ids
\* only in the old list and items that differ in other fields only are not
\* reported.
C16_DiffReportsExactly ==
    detect.called
        => LET old == detect.oldPayouts
               new == detect.newPayouts
               expected ==
                   {p \in Items(new) :
                       \/ \E o \in Items(old) : o.id = p.id /\ o.status # p.status
                       \/ \A o \in Items(old) : o.id # p.id}
           IN  /\ Items(detect.changes) = expected
               /\ Len(detect.changes) = Cardinality(expected)

\* C16 witness: of two new items one is reported, for its status, and the other,
\* which differs from the old one in its amount only, is not.
C16_Witness ==
    /\ detect.called
    /\ Len(detect.oldPayouts) = 2 /\ Len(detect.newPayouts) = 2
    /\ Len(detect.changes) = 1
    /\ \E i, j \in 1..2 :
          /\ detect.newPayouts[i].id = detect.oldPayouts[j].id
          /\ detect.newPayouts[i].status = detect.oldPayouts[j].status
          /\ detect.newPayouts[i].amount # detect.oldPayouts[j].amount

\* C17: the change list is a subsequence of the new list: the reported items come
\* in the order they have there.
C17_DiffKeepsOrder ==
    detect.called => IsSubsequence(detect.changes, detect.newPayouts)

\* C19: retry invokes the operation at least once and at most maxRetries + 1
\* times, never again after a success, and the attempts of every result it
\* returns is the number of invocations made.
C19_AttemptsCountInvocations ==
    /\ retry.pc # "none"
        => /\ retry.invocations <= retry.config.maxRetries + 1
           /\ Len(retry.outcomes) = retry.invocations
           /\ \A i \in 1..Len(retry.outcomes) :
                 retry.outcomes[i] = "success" => i = Len(retry.outcomes)
    /\ (retry.pc = "done")
        => /\ retry.invocations >= 1
           /\ retry.result.settled = "returned"
                 => retry.result.attempts = retry.invocations

\* C19 witness: a call with maxRetries 2 returns a success of its second
\* invocation.
C19_Witness ==
    /\ retry.pc = "done" /\ retry.config.maxRetries = 2
    /\ retry.result.success /\ retry.result.attempts = 2
    /\ retry.outcomes = << "retryable", "success" >>

\* C20: an attempt that fails with a failure that is not retryable ends the call:
\* the result has success false and attempts = index + 1, and no invocation and
\* no sleep follows it, whatever the earlier attempts failed with.
C20_FatalEndsCall ==
    (retry.pc # "none")
        => \A i \in 1..Len(retry.outcomes) :
              retry.outcomes[i] = "fatal"
                  => /\ i = Len(retry.outcomes)
                     /\ Len(retry.sleeps) = i - 1
                     /\ retry.pc = "done"
                     /\ retry.result.settled = "returned"
                     /\ ~retry.result.success
                     /\ retry.result.attempts = i

\* C20 witness: the second attempt of a call with maxRetries 2 fails with a
\* failure that is not retryable, after a first one that was.
C20_Witness ==
    /\ retry.pc = "done" /\ retry.config.maxRetries = 2
    /\ retry.outcomes = << "retryable", "fatal" >>
    /\ Len(retry.sleeps) = 1
    /\ ~retry.result.success /\ retry.result.attempts = 2

\* C21: retry sleeps only between two attempts: a result it returns has
\* attempts - 1 sleeps before it; with maxRetries 0 the operation is invoked once
\* and there is no sleep, whatever the attempt ends with.
C21_SleepsBetweenAttempts ==
    /\ (retry.pc = "done" /\ retry.result.settled = "returned")
        => Len(retry.sleeps) = retry.result.attempts - 1
    /\ (retry.pc = "done" /\ retry.config.maxRetries = 0)
        => retry.invocations = 1 /\ retry.sleeps = << >>
    /\ (retry.pc # "none" /\ retry.config.maxRetries = 0) => retry.pc # "sleeping"

\* C21 witness: the last attempt of a call with maxRetries 2 fails with a
\* retryable failure, two sleeps before it.
C21_Witness ==
    /\ retry.pc = "done" /\ retry.config.maxRetries = 2
    /\ retry.outcomes = << "retryable", "retryable", "retryable" >>
    /\ Len(retry.sleeps) = 2 /\ retry.result.attempts = 3

\* the server hint a failure carries: retry_after of its response body, 0 for none
HintOf(e) ==
    IF e.response.present /\ e.response.parses THEN e.response.retry_after ELSE 0

\* min(baseDelay x backoffBase^k, maxDelay)
Backoff(k, config) ==
    Min({config.baseDelay * Pow(config.exponentialBase, k), config.maxDelay})

\* C22: with maxRetries 3, baseDelay 1000, base 2, no jitter, maxDelay >= 8000 and
\* no server hint, the waits of a call whose attempts all fail with retryable
\* failures are 2000, 4000 and 8000 ms.
C22_WaitsDouble ==
    ( /\ retry.pc = "done"
      /\ retry.config = [maxRetries |-> 3, baseDelay |-> 1000, maxDelay |-> 8000,
                         exponentialBase |-> 2, jitter |-> FALSE]
      /\ retry.outcomes = << "retryable", "retryable", "retryable", "retryable" >>
      /\ \A i \in 1..Len(retry.thrown) : HintOf(retry.thrown[i]) = 0 )
        => retry.sleeps = << 2000, 4000, 8000 >>

\* the wait after attempt k is the backoff value, scaled to between its half and
\* itself when the policy has jitter
IsBackoffWait(wait, k, config) ==
    /\ wait <= config.maxDelay
    /\ IF config.jitter
       THEN 2 * wait >= Backoff(k, config) /\ wait <= Backoff(k, config)
       ELSE wait = Backoff(k, config)

\* C23: the wait after the attempt with index k, when its failure carries no
\* server hint, is min(baseDelay x backoffBase^k, maxDelay) without jitter and
\* between half of it and it with jitter, and is never above maxDelay.
C23_BackoffWait ==
    (retry.pc # "none")
        => \A i \in 1..Len(retry.sleeps) :
              HintOf(retry.thrown[i]) = 0
                  => IsBackoffWait(retry.sleeps[i], i - 1, retry.config)

\* C24: the wait after an attempt is the server hint of that attempt's failure, in
\* ms, when the failure carries one, and the backoff value when it carries none,
\* whatever the failures of earlier attempts carried.
C24_HintOfThisFailure ==
    (retry.pc # "none")
        => \A i \in 1..Len(retry.sleeps) :
              IF HintOf(retry.thrown[i]) # 0
              THEN retry.sleeps[i] = HintOf(retry.thrown[i]) * 1000
              ELSE IsBackoffWait(retry.sleeps[i], i - 1, retry.config)

IsTransportFailure(e) == e.type # "undefined" /\ e.status = 0 /\ ~e.response.present

\* C27: a transport-level failure without an HTTP status is retryable: the attempt
\* it ends is followed by another one while attempts remain.
C27_TransportIsRetryable ==
    (retry.pc # "none")
        => \A i \in 1..Len(retry.thrown) :
              IsTransportFailure(retry.thrown[i])
                  => /\ retry.outcomes[i] = "retryable"
                     /\ (retry.pc = "done" /\ i = Len(retry.thrown))
                            => retry.invocations = retry.config.maxRetries + 1

\* C26: a failure with status 408, 429, 500, 502, 503 or 504 is retryable and one
\* with status 400, 401, 403 or 404 is not, whatever its message and its backend
\* error code are.
C26_StatusDecides ==
    classify.called
        => /\ classify.failure.status \in RetryableStatusCodes => classify.retryable
           /\ classify.failure.status \in ClientErrorStatusCodes => ~classify.retryable

\* the requests the retried closures sent
Attempts_Sent == {i \in DOMAIN wire.sent : wire.sent[i].kind = "attempt"}

\* C28: the requests of one service call all carry the same X-Correlation-ID, a
\* minted one, and the requests of two calls carry different ones.
C28_OneIdPerCall ==
    \A i, j \in Attempts_Sent :
        /\ wire.sent[i].id[1] = "uuid"
        /\ wire.sent[i].call = wire.sent[j].call <=> wire.sent[i].id = wire.sent[j].id

\* C28 witness: a call sent two attempts and another call a third request.
C28_Witness ==
    /\ Len(wire.sent) >= 3
    /\ wire.sent[1].kind = "attempt" /\ wire.sent[2].kind = "attempt"
    /\ wire.sent[3].kind = "attempt"
    /\ wire.sent[1].call = wire.sent[2].call /\ wire.sent[1].attempt # wire.sent[2].attempt
    /\ wire.sent[1].id = wire.sent[2].id
    /\ wire.sent[3].call # wire.sent[1].call /\ wire.sent[3].id # wire.sent[1].id

\* C29: the list requests sent during one poll tick all carry the same
\* X-Correlation-ID, the correlation id performPoll passed to retry for that tick.
C29_OneIdPerTick ==
    \A i, j \in Attempts_Sent :
        (wire.sent[i].tick.call # 0)
            => /\ wire.sent[i].id = wire.sent[i].tick.passed
               /\ wire.sent[i].tick.call = wire.sent[j].tick.call
                     => wire.sent[i].id = wire.sent[j].id

\* C30: the requests of one createPayout call all carry the same Idempotency-Key,
\* and one key is generated for each submission of the form.
C30_OneKeyPerSubmission ==
    /\ wire.keys = wire.submitted
    /\ \A i, j \in Attempts_Sent :
          (wire.sent[i].op = "createPayout")
              => /\ wire.sent[i].key[1] = "payout"
                 /\ wire.sent[i].call = wire.sent[j].call
                       <=> wire.sent[i].key = wire.sent[j].key

\* C30 witness: the form was submitted twice, the first createPayout call sending
\* two attempts.
C30_Witness ==
    /\ wire.submitted = 2 /\ Len(wire.sent) >= 3
    /\ \A i \in 1..3 : wire.sent[i].op = "createPayout"
    /\ wire.sent[1].call = wire.sent[2].call /\ wire.sent[1].attempt # wire.sent[2].attempt
    /\ wire.sent[1].key = wire.sent[2].key
    /\ wire.sent[3].call # wire.sent[1].call /\ wire.sent[3].key # wire.sent[1].key

\* the list requests sent in the poll tick of retry call c
TickRequests(c) == {i \in Attempts_Sent : wire.sent[i].tick.call = c}

\* C31: one poll tick sends at most CONSERVATIVE.maxRetries + 1 list requests, and
\* one only when its first request fails with a failure that is not retryable.
C31_TickRequestsBounded ==
    \A i \in Attempts_Sent :
        LET c == wire.sent[i].tick.call
        IN  (c # 0)
              => /\ Cardinality(TickRequests(c)) <= CONSERVATIVE.maxRetries + 1
                 /\ (\A j \in TickRequests(c) : i <= j) /\ wire.sent[i].outcome = "fatal"
                       => TickRequests(c) = {i}

\* C32: when stop() returns no timeout armed by the coordinator is pending, so that
\* a start() that follows leaves exactly one.
C32_StopLeavesNoTimer ==
    [][ /\ ev'.op = "stopPolling" => timers' = << >>
        /\ (ev'.op = "startPolling" /\ ~isPolling /\ ev.op = "stopPolling")
              => Len(timers') = 1 ]_vars

\* C33: the correlation id performPoll gives to retry for a tick differs from the
\* one of every other tick of the coordinator, those of earlier sessions included.
C33_TickIdsDiffer ==
    \A i, j \in DOMAIN ticks : ticks[i] = ticks[j] => i = j

\* the call returned because its last attempt failed with a retryable failure
Exhausted(r) ==
    /\ r.pc = "done" /\ r.result.settled = "returned" /\ ~r.result.success
    /\ r.outcomes[Len(r.outcomes)] = "retryable"

\* the backend error detail a failure carries
DetailOf(e) == IF e.response.present THEN ExtractBackendError(e.response) ELSE NoBackendError

\* C34: when the retries are exhausted the result has attempts = maxRetries + 1 and
\* the error and the backend error detail of the last attempt.
C34_ExhaustedReportsLast ==
    (retry.pc # "none" /\ Exhausted(retry))
        => /\ retry.result.attempts = retry.config.maxRetries + 1
           /\ retry.result.error = retry.thrown[Len(retry.thrown)]
           /\ retry.result.finalError = DetailOf(retry.thrown[Len(retry.thrown)])

\* C35: a failure with an HTTP status is classified by the status alone, its backend
\* error code being ignored; one without a status by its backend error code, the
\* six listed codes being retryable and the others not; a failure with neither that
\* is no transport failure is not retryable.
C35_Precedence ==
    classify.called
        => LET e == classify.failure
           IN  /\ e.status # 0 => (classify.retryable <=> e.status \in RetryableStatusCodes)
               /\ (e.status = 0 /\ e.error # "")
                     => (classify.retryable <=> e.error \in RetryableErrorCodes)
               /\ (e.status = 0 /\ e.error = "" /\ e.type = "Error"
                      /\ e.message \in {<< >>, << "Invalid", "request" >>})
                     => ~classify.retryable

\* C36: isBackendDownError is true of every failure with status 502, 503 or 504 and
\* of the three backend codes of an unavailable service, and it is true only of
\* failures that isRetryableError takes for retryable.
C36_DownIsRetryable ==
    classify.called
        => LET e == classify.failure
           IN  /\ e.status \in BackendDownStatusCodes => classify.down
               /\ e.error \in BackendDownErrorCodes => classify.down
               /\ classify.down => classify.retryable

\* the failure a response would be without the replacement of its message
Unrewritten(q) == ServiceError(q.response.status, q.response.detail)

\* C37: a session-expired message is replaced by the server-unavailable message only
\* when the failure is one that isBackendDownError flags; a session-expired failure
\* of a backend that answered otherwise keeps its message, and the replacement
\* leaves the failure's classification as it was.
C37_RewriteOnlyWhenDown ==
    \A i \in DOMAIN wire.sent :
        LET q == wire.sent[i]
        IN  (q.response.status # 0 /\ q.thrown.type = "Error"
               /\ IsSessionExpired(q.response.detail))
              => /\ q.thrown.message = ServerUnavailable.message
                      => IsBackendDownError(Unrewritten(q))
                 /\ ~IsBackendDownError(Unrewritten(q))
                      => q.thrown.message = q.response.detail
                 /\ IsRetryableError(q.thrown) <=> IsRetryableError(Unrewritten(q))

Invocations(cb) == Cardinality({i \in DOMAIN round.invoked : round.invoked[i] = cb})
SubscribedAtStart(cb) == \E i \in DOMAIN round.began : round.began[i] = cb

\* C38: in a notification round the callbacks called are those subscribed when
\* the round began, each once, whatever the callbacks subscribe or unsubscribe
\* during the round.
C38_RoundCallsSnapshot ==
    (round.active /\ RoundOver(round))
        => \A cb \in Subscribers :
              Invocations(cb) = IF SubscribedAtStart(cb) THEN 1 ELSE 0

SameStatusIn(payouts, p) ==
    \E j \in DOMAIN payouts : payouts[j].id = p.id /\ payouts[j].status = p.status

\* C39: when updateCurrentPayouts was called while a poll of an active session was
\* in flight, the changes found at the settlement are those between the list held
\* then and the fetched one: no payout that the held list has with the fetched
\* status is among them, and the payout subscribers are called only if there are
\* changes.
C39_DiffAgainstCurrent ==
    [][ (ev'.op = "settleSuccess" /\ ev'.active /\ ev'.updated)
          => /\ ev'.changes = DetectChanges(currentPayouts, ev'.arg)
             /\ \A k \in DOMAIN ev'.changes : ~SameStatusIn(currentPayouts, ev'.changes[k])
             /\ (ev'.changes = << >>) => PayoutCalls(calls') = << >> ]_vars

C39_Witness ==
    /\ ev.op = "settleSuccess" /\ ev.active /\ ev.updated
    /\ ev.changes = << >>
    /\ DetectChanges(ev.poll.held, ev.arg) # << >>
    /\ currentPayouts = ev.arg
    /\ payoutUpdateCallbacks # << >>

\* the first call of the page is getCurrentUser and it has not settled: every
\* request sent so far was sent for it
FirstCallIsGetCurrentUser ==
    Depth > 0 /\ wire.stack[1].op = "getCurrentUser" /\ wire.stack[1].call = 1

\* no request failed: /auth/me answered 401 and /auth/refresh answered ok
OnlyUnauthorized ==
    \A i \in DOMAIN wire.sent :
        \/ wire.sent[i].op = "getCurrentUser" /\ wire.sent[i].outcome = "unauthorized"
        \/ wire.sent[i].op = "refreshToken" /\ wire.sent[i].outcome = "ok"

\* C40: a call of getCurrentUser settles after a bounded number of requests, also
\* when /auth/me keeps answering 401 and every refresh succeeds: with no request
\* failing it sends no more requests than one run of its retry policy allows.
C40_GetCurrentUserBounded ==
    (FirstCallIsGetCurrentUser /\ OnlyUnauthorized)
        => Len(wire.sent) <= STANDARD.maxRetries + 1

=============================================================================
